---- MODULE Spec2Model ----
(***************************************************************************)
(* Model of the partial-credit analysis of acr_synthetic_cases             *)
(* (src/analyze_partial_credit.py): the parsing of a variant's serialized  *)
(* procedure field, the extraction of its procedure identifiers, and the   *)
(* per-mode scoring loop with its metrics.                                 *)
(*                                                                         *)
(* Python floats are modelled as exact rationals <<num, den>> in lowest    *)
(* terms; every score the program computes is a ratio of two small         *)
(* cardinalities, their sums and quotients.                                *)
(***************************************************************************)
EXTENDS Integers, Sequences, FiniteSets, TLC

\* ------------------------------------------------------------------ bounds
\* Longest list of procedure entries of a serialized procedure field.
MaxLen == 2
\* Largest number of rows of the evaluation results file (len(df_results)).
MaxRows == 3
\* Most rows of dataset/acr.csv.
MaxCatalog == 2
\* Most rows of results/patient_cases_2.csv the evaluator reads.
MaxCases == 2

\* ---------------------------------------------------------------- universe
\* Procedure identifiers that occur in the serialized data.
Tokens == {"X", "Y", "Z"}
\* Marks a key that a structured entry does not have.
NoKey == "<absent>"
\* Variants that occur in the result rows and in the two maps.
Variants == {"A", "B"}
\* Marks a variant for which dict.get(variant) finds nothing (Python None).
None == "<None>"
\* Condition values of the condition map; "" is the empty string.
Conditions == {"", "C1", "C2"}
\* The three description modes, in the order of the loop.
DescTypes == <<"desc_1", "desc_2", "desc_3">>

\* ------------------------------------------------- serialized procedure data
\* One element of a parsed list: a bare string, or a dict with an optional
\* 'code', an optional 'name' and possibly one other key ('id').
Bare(s) == [kind |-> "bare", code |-> NoKey, name |-> NoKey, other |-> s]
Dict(c, n, o) == [kind |-> "dict", code |-> c, name |-> n, other |-> o]
Entries ==
    {Bare(s) : s \in Tokens}
    \cup {Dict(c, n, o) : c \in {NoKey, "X"}, n \in {NoKey, "Y"}, o \in {NoKey, "X"}}

\* A parsed value: a list of entries, or a number (json.loads("5") is 5,
\* json.loads("0") is 0; null and false behave as 0 does).
ListVal(items) == [ty |-> "list", items |-> items, n |-> 0]
NumVal(n) == [ty |-> "num", items |-> <<>>, n |-> n]

\* Sequences over S of length at most n.
SeqsUpTo(S, n) == UNION {[1 .. k -> S] : k \in 0 .. n}

Values == {ListVal(q) : q \in SeqsUpTo(Entries, MaxLen)} \cup {NumVal(0), NumVal(5)}

\* A cell of the procedure_json column: NaN (missing), or a text that is
\* valid JSON ("json"), not JSON but a Python literal ("literal"), or neither
\* ("garbage"); val is what the successful parser returns for it.
Cell(isna, syntax, val) == [isna |-> isna, syntax |-> syntax, val |-> val]
NaNCell == Cell(TRUE, "garbage", ListVal(<<>>))
GarbageCell == Cell(FALSE, "garbage", ListVal(<<>>))
JsonCell(val) == Cell(FALSE, "json", val)
LiteralCell(val) == Cell(FALSE, "literal", val)
Cells ==
    {NaNCell, GarbageCell} \cup {JsonCell(v) : v \in Values}
                           \cup {LiteralCell(v) : v \in Values}

\* safe_parse_json: NaN gives [], then json.loads, then ast.literal_eval,
\* then [] when both raise.
safe_parse_json(json_str) ==
    IF json_str.isna THEN ListVal(<<>>)
    ELSE IF json_str.syntax = "json" THEN json_str.val
    ELSE IF json_str.syntax = "literal" THEN json_str.val
    ELSE ListVal(<<>>)

\* bool(procedures) of Python: [] and 0 are false.
Truthy(val) == IF val.ty = "list" THEN Len(val.items) > 0 ELSE val.n # 0

\* The items of a sequence of strings joined by ", ".
RECURSIVE Join(_)
Join(parts) ==
    IF parts = <<>> THEN ""
    ELSE IF Len(parts) = 1 THEN parts[1]
    ELSE parts[1] \o ", " \o Join(Tail(parts))

\* str(proc): a string is its own str; a dict prints its items in order.
StrOf(proc) ==
    IF proc.kind = "bare" THEN proc.other
    ELSE LET item(key, value) ==
                 IF value = NoKey THEN <<>> ELSE <<"'" \o key \o "': '" \o value \o "'">>
         IN  "{" \o Join(item("code", proc.code) \o item("name", proc.name)
                         \o item("id", proc.other)) \o "}"

\* One iteration of the loop of extract_procedures over proc, proc_set being
\* the set built so far.
AddProc(proc_set, proc) ==
    IF proc.kind = "dict"
    THEN LET withCode == IF proc.code # NoKey THEN proc_set \cup {proc.code} ELSE proc_set
             withName == IF proc.name # NoKey THEN withCode \cup {proc.name} ELSE withCode
         IN  IF withName = {} THEN {StrOf(proc)} ELSE withName
    ELSE proc_set \cup {StrOf(proc)}

RECURSIVE ExtractLoop(_, _)
ExtractLoop(items, proc_set) ==
    IF items = <<>> THEN proc_set
    ELSE ExtractLoop(Tail(items), AddProc(proc_set, Head(items)))

\* extract_procedures: the set of identifiers, or a raised TypeError when the
\* parsed value is truthy but cannot be iterated (a number).
Returned(s) == [raised |-> FALSE, set |-> s]
Raised == [raised |-> TRUE, set |-> {}]
extract_procedures(procedure_json) ==
    LET procedures == safe_parse_json(procedure_json)
    IN  IF ~Truthy(procedures) THEN Returned({})
        ELSE IF procedures.ty # "list" THEN Raised
        ELSE Returned(ExtractLoop(procedures.items, {}))

\* The cells the procedure map is drawn from for the scoring loop: an
\* unparsable text, a number, and lists of bare identifiers that overlap
\* ({X,Y} and {X,Z}), are disjoint ({X,Y} and {Z}) or nested ({Z} and {X,Z}).
TokenSeq == <<"X", "Y", "Z">>
BareList(S) ==
    LET chosen == SelectSeq(TokenSeq, LAMBDA t : t \in S)
    IN  ListVal([k \in 1 .. Len(chosen) |-> Bare(chosen[k])])
CatalogCells ==
    {GarbageCell, JsonCell(NumVal(5)), JsonCell(BareList({"X", "Y"})),
     JsonCell(BareList({"X", "Z"})), JsonCell(BareList({"Z"}))}

\* ------------------------------------------------------------------ floats
RECURSIVE GCD(_, _)
GCD(a, b) == IF b = 0 THEN a ELSE GCD(b, a % b)
\* The rational n/d (n >= 0, d > 0) in lowest terms.
Ratio(n, d) == LET g == GCD(n, d) IN <<n \div g, d \div g>>
Zero == <<0, 1>>
One == <<1, 1>>
RAdd(p, q) == Ratio(p[1] * q[2] + q[1] * p[2], p[2] * q[2])
RMul(p, q) == Ratio(p[1] * q[1], p[2] * q[2])
\* p / q for q > 0.
RDiv(p, q) == Ratio(p[1] * q[2], p[2] * q[1])
RLeq(p, q) == p[1] * q[2] <= q[1] * p[2]
\* sum(scores) of Python: a left fold from 0.
RECURSIVE SumFrom(_, _)
SumFrom(acc, scores) ==
    IF scores = <<>> THEN acc ELSE SumFrom(RAdd(acc, Head(scores)), Tail(scores))
RSum(scores) == SumFrom(Zero, scores)

\* ------------------------------------------------------------------- state
VARIABLES
    variant_to_procedure,        \* Variant -> procedure_json cell (a dict)
    variant_to_condition,        \* Variant -> Condition (a dict)
    analysis,                    \* desc_type -> summary, local to the analysis
    mode,                        \* index in DescTypes of the loop's desc_type
    pc,                          \* "start", "rows", "done" or "error"
    rows_read,                   \* rows of df_results taken by the modes so far
    total,                       \* len(desc_results) of the current mode
    i,                           \* rows of desc_results the loop has taken
    exact_matches,
    procedure_matches,
    condition_matches,
    procedure_precision_scores,
    procedure_recall_scores,
    row,                         \* the row of the current iteration
    main_analysis,               \* what main() receives from the analysis
    call,                        \* one call of extract_procedures: argument, result
    \* embed_acr.py and search_acr.py
    acr_csv,                     \* the rows of dataset/acr.csv (df)
    acr_embeddings,              \* the rows of table acr_embeddings, by id
    build_pc,                    \* "create", "insert", "commit" or "done"
    encoder,                     \* what model.encode has returned so far
    search_call,                 \* the last call of search(): arguments, rows
    \* test_embedding_accuracy_3desc.py
    df,                          \* original_variant of each row of the cases file
    eval_pc,                     \* "mode", "rows", "save", "done" or "failed"
    desc_type,                   \* index in DescTypes of the mode being tested
    idx,                         \* rows of df the loop has passed in this mode
    total_queries,               \* counters and list of the current mode
    correct_matches,
    distances,
    all_results,                 \* the detail records, all modes
    results_summary,             \* desc_type -> summary
    executed,                    \* the LIMITs of the queries run in this mode
    saved,                       \* what has been written to the two files
    \* load_acr_mapping
    df_synthetic,                \* the rows of results/synthetic.csv
    df_acr,                      \* the rows of the ACR dataset, None if no file
    load_pc,                     \* "synthetic", "acr", "rows" or "done"
    load_i,                      \* rows the current loop has passed
    condition_to_variants        \* condition -> set of variants

scorer_vars ==
    <<variant_to_procedure, variant_to_condition, analysis, mode, pc, rows_read,
      total, i, exact_matches, procedure_matches, condition_matches,
      procedure_precision_scores, procedure_recall_scores, row, main_analysis>>
index_vars == <<acr_csv, acr_embeddings, build_pc, encoder, search_call>>
eval_vars ==
    <<df, eval_pc, desc_type, idx, total_queries, correct_matches, distances,
      all_results, results_summary, executed, saved>>
load_vars == <<df_synthetic, df_acr, load_pc, load_i, condition_to_variants>>
vars == <<scorer_vars, call, index_vars, eval_vars, load_vars>>

\* dict.get(key, default)
Get(dict, key, default) == IF key \in DOMAIN dict THEN dict[key] ELSE default
EmptyDict == [k \in {} |-> None]
\* All dicts with keys among K and values in V.
Dicts(K, V) == UNION {[D -> V] : D \in SUBSET K}

NoRow == [original_variant |-> None, retrieved_variant |-> None]
Row(o, r) == [original_variant |-> o, retrieved_variant |-> r]

\* ----------------------------------------------------- the scorer's steps
\* Line 114: the exact-match test.
IsExactMatch(original_variant, retrieved_variant) ==
    original_variant = retrieved_variant

\* Variant of ProcedureScore: precision and recall divide by the other set.
ProcedureScore_Swapped(original_procedures, retrieved_procedures) ==
    IF original_procedures # {} /\ retrieved_procedures # {}
    THEN LET intersection == original_procedures \cap retrieved_procedures
         IN  [match |-> intersection # {},
              precision |-> Ratio(Cardinality(intersection),
                                  Cardinality(original_procedures)),
              recall |-> Ratio(Cardinality(intersection),
                               Cardinality(retrieved_procedures))]
    ELSE [match |-> FALSE, precision |-> Zero, recall |-> Zero]

\* Variant of ProcedureScore: the ratios are taken without the intersection.
ProcedureScore_NoIntersection(original_procedures, retrieved_procedures) ==
    IF original_procedures # {} /\ retrieved_procedures # {}
    THEN LET intersection == original_procedures \cap retrieved_procedures
         IN  [match |-> intersection # {},
              precision |-> Ratio(Cardinality(retrieved_procedures),
                                  Cardinality(original_procedures)),
              recall |-> Ratio(Cardinality(original_procedures),
                               Cardinality(retrieved_procedures))]
    ELSE [match |-> FALSE, precision |-> Zero, recall |-> Zero]

\* Variant of ProcedureScore: two empty sets count as a perfect overlap.
ProcedureScore_EmptyEqual(original_procedures, retrieved_procedures) ==
    IF original_procedures # {} /\ retrieved_procedures # {}
    THEN LET intersection == original_procedures \cap retrieved_procedures
         IN  [match |-> intersection # {},
              precision |-> Ratio(Cardinality(intersection),
                                  Cardinality(retrieved_procedures)),
              recall |-> Ratio(Cardinality(intersection),
                               Cardinality(original_procedures))]
    ELSE IF original_procedures = retrieved_procedures
    THEN [match |-> TRUE, precision |-> One, recall |-> One]
    ELSE [match |-> FALSE, precision |-> Zero, recall |-> Zero]

\* Lines 126-139: the procedure-level outcome of a non-exact row, from the
\* two extracted sets: whether procedure_matches is incremented, and the
\* scores appended to the two lists.
ProcedureScore(original_procedures, retrieved_procedures) ==
    IF original_procedures # {} /\ retrieved_procedures # {}
    THEN LET intersection == original_procedures \cap retrieved_procedures
         IN  [match |-> intersection # {},
              precision |-> Ratio(Cardinality(intersection),
                                  Cardinality(retrieved_procedures)),
              recall |-> Ratio(Cardinality(intersection),
                               Cardinality(original_procedures))]
    ELSE [match |-> FALSE, precision |-> Zero, recall |-> Zero]

\* bool(condition) of Python for a looked-up condition: None and "" are false.
CondTruthy(condition) == condition # None /\ condition # ""

\* Lines 142-145: whether condition_matches is incremented.
ConditionMatch(original_variant, retrieved_variant) ==
    LET original_condition == Get(variant_to_condition, original_variant, None)
        retrieved_condition == Get(variant_to_condition, retrieved_variant, None)
    IN  /\ CondTruthy(original_condition)
        /\ CondTruthy(retrieved_condition)
        /\ original_condition = retrieved_condition

\* Lines 123-124: the two extractions of a non-exact row.
OriginalProcedures(original_variant) ==
    extract_procedures(Get(variant_to_procedure, original_variant,
                           JsonCell(ListVal(<<>>))))
RetrievedProcedures(retrieved_variant) ==
    extract_procedures(Get(variant_to_procedure, retrieved_variant,
                           JsonCell(ListVal(<<>>))))

\* Variant of ProcedureF1: the arithmetic mean of the two averages.
ProcedureF1_Arithmetic(avg_procedure_precision, avg_procedure_recall) ==
    IF RAdd(avg_procedure_precision, avg_procedure_recall) # Zero
    THEN RDiv(RAdd(avg_procedure_precision, avg_procedure_recall), <<2, 1>>)
    ELSE Zero

\* Line 155.
ProcedureF1(avg_procedure_precision, avg_procedure_recall) ==
    IF RAdd(avg_procedure_precision, avg_procedure_recall) # Zero
    THEN RDiv(RMul(<<2, 1>>, RMul(avg_procedure_precision, avg_procedure_recall)),
              RAdd(avg_procedure_precision, avg_procedure_recall))
    ELSE Zero

\* Lines 149-168: the summary of a mode with total > 0.
Summary ==
    LET avg_procedure_precision ==
            RDiv(RSum(procedure_precision_scores),
                 <<Len(procedure_precision_scores), 1>>)
        avg_procedure_recall ==
            RDiv(RSum(procedure_recall_scores), <<Len(procedure_recall_scores), 1>>)
    IN  [total_queries |-> total,
         exact_matches |-> exact_matches,
         procedure_matches |-> procedure_matches,
         condition_matches |-> condition_matches,
         exact_accuracy |-> Ratio(exact_matches, total),
         procedure_accuracy |-> Ratio(procedure_matches, total),
         condition_accuracy |-> Ratio(condition_matches, total),
         procedure_precision |-> avg_procedure_precision,
         procedure_recall |-> avg_procedure_recall,
         procedure_f1 |-> ProcedureF1(avg_procedure_precision, avg_procedure_recall)]

\* ------------------------------------------------------------ initial states
CallIdle == [arg |-> NaNCell, done |-> FALSE, result |-> Returned({})]

\* After load_acr_mapping and the read of the results file: the two maps are
\* any dicts over the variants, nothing has been scored.
ScorerStart ==
    /\ analysis = EmptyDict
    /\ mode = 1
    /\ pc = "start"
    /\ rows_read = 0
    /\ total = 0
    /\ i = 0
    /\ exact_matches = 0
    /\ procedure_matches = 0
    /\ condition_matches = 0
    /\ procedure_precision_scores = <<>>
    /\ procedure_recall_scores = <<>>
    /\ row = NoRow
    /\ main_analysis = EmptyDict

\* No call of search() has been made.
NoSearch ==
    [made |-> FALSE, query |-> "", limit |-> 0, model |-> "", text |-> "",
     embedding |-> 0, results |-> <<>>]

\* The index scripts are not running: no source table, no database table.
IndexIdle ==
    /\ acr_csv = <<>>
    /\ acr_embeddings = <<>>
    /\ build_pc = "idle"
    /\ encoder = EmptyDict
    /\ search_call = NoSearch

\* The evaluator is not running.
NothingSaved == [written |-> FALSE, details |-> <<>>, summary |-> <<>>]

EvalIdle ==
    /\ df = <<>>
    /\ eval_pc = "idle"
    /\ desc_type = 1
    /\ idx = 0
    /\ total_queries = 0
    /\ correct_matches = 0
    /\ distances = <<>>
    /\ all_results = <<>>
    /\ results_summary = EmptyDict
    /\ executed = <<>>
    /\ saved = NothingSaved

\* load_acr_mapping is not running.
LoadIdle ==
    /\ df_synthetic = <<>>
    /\ df_acr = <<>>
    /\ load_pc = "idle"
    /\ load_i = 0
    /\ condition_to_variants = EmptyDict

Init ==
    /\ variant_to_procedure \in Dicts(Variants, CatalogCells)
    /\ variant_to_condition \in Dicts(Variants, Conditions)
    /\ ScorerStart
    /\ call = CallIdle
    /\ IndexIdle
    /\ EvalIdle
    /\ LoadIdle

\* ------------------------------------------------------------------ actions
\* Variant of StartMode: the counters and the score lists are created once,
\* before the loop over the modes, and carried from one mode to the next.
StartMode_NoReset ==
    /\ pc = "start"
    /\ \E n \in 0 .. (MaxRows - rows_read) :
          /\ total' = n
          /\ rows_read' = rows_read + n
    /\ i' = 0
    /\ pc' = "rows"
    /\ UNCHANGED <<variant_to_procedure, variant_to_condition, analysis, mode, row,
                   exact_matches, procedure_matches, condition_matches,
                   procedure_precision_scores, procedure_recall_scores,
                   main_analysis, call, index_vars, eval_vars, load_vars>>

\* Lines 98-107: the rows of the mode are selected and the counters reset.
StartMode ==
    /\ pc = "start"
    /\ \E n \in 0 .. (MaxRows - rows_read) :
          /\ total' = n
          /\ rows_read' = rows_read + n
    /\ i' = 0
    /\ exact_matches' = 0
    /\ procedure_matches' = 0
    /\ condition_matches' = 0
    /\ procedure_precision_scores' = <<>>
    /\ procedure_recall_scores' = <<>>
    /\ pc' = "rows"
    /\ UNCHANGED <<variant_to_procedure, variant_to_condition, analysis, mode, row,
                   main_analysis, call, index_vars, eval_vars, load_vars>>

MoreRows == pc = "rows" /\ i < total

\* Variant of ExactScore: the exact branch forgets procedure_matches.
ExactScore_NoProcedure ==
    [exact |-> 1, procedure |-> 0, condition |-> 1, precision |-> One, recall |-> One]

\* Variant of ExactScore: the exact branch forgets condition_matches.
ExactScore_NoCondition ==
    [exact |-> 1, procedure |-> 1, condition |-> 0, precision |-> One, recall |-> One]

\* Lines 115-119: what an exact match adds to the counters and the lists.
ExactScore ==
    [exact |-> 1, procedure |-> 1, condition |-> 1, precision |-> One, recall |-> One]

\* Lines 114-120: a row whose two variants are equal.
ExactMatchRow ==
    /\ MoreRows
    /\ \E o \in Variants, r \in Variants :
          /\ IsExactMatch(o, r)
          /\ row' = Row(o, r)
    /\ i' = i + 1
    /\ exact_matches' = exact_matches + ExactScore.exact
    /\ procedure_matches' = procedure_matches + ExactScore.procedure
    /\ condition_matches' = condition_matches + ExactScore.condition
    /\ procedure_precision_scores' =
           Append(procedure_precision_scores, ExactScore.precision)
    /\ procedure_recall_scores' = Append(procedure_recall_scores, ExactScore.recall)
    /\ UNCHANGED <<variant_to_procedure, variant_to_condition, analysis, mode, pc,
                   rows_read, total, main_analysis, call, index_vars, eval_vars, load_vars>>

\* Lines 122-146: a row whose variants differ and whose extractions return.
PartialCreditRow ==
    /\ MoreRows
    /\ \E o \in Variants, r \in Variants :
          /\ ~IsExactMatch(o, r)
          /\ ~OriginalProcedures(o).raised
          /\ ~RetrievedProcedures(r).raised
          /\ row' = Row(o, r)
          /\ LET score == ProcedureScore(OriginalProcedures(o).set,
                                         RetrievedProcedures(r).set)
             IN  /\ procedure_matches' =
                        procedure_matches + (IF score.match THEN 1 ELSE 0)
                 /\ procedure_precision_scores' =
                        Append(procedure_precision_scores, score.precision)
                 /\ procedure_recall_scores' =
                        Append(procedure_recall_scores, score.recall)
          /\ condition_matches' =
                 condition_matches + (IF ConditionMatch(o, r) THEN 1 ELSE 0)
    /\ i' = i + 1
    /\ UNCHANGED <<variant_to_procedure, variant_to_condition, analysis, mode, pc,
                   rows_read, total, exact_matches, main_analysis, call, index_vars, eval_vars, load_vars>>

\* Lines 123-124, 235-248: an extraction of a non-exact row raises; the
\* exception leaves analyze_partial_credit and main() reports it.
ExtractionRaises ==
    /\ MoreRows
    /\ \E o \in Variants, r \in Variants :
          /\ ~IsExactMatch(o, r)
          /\ OriginalProcedures(o).raised \/ RetrievedProcedures(r).raised
          /\ row' = Row(o, r)
    /\ i' = i + 1
    /\ pc' = "error"
    /\ UNCHANGED <<variant_to_procedure, variant_to_condition, analysis, mode,
                   rows_read, total, exact_matches, procedure_matches,
                   condition_matches, procedure_precision_scores,
                   procedure_recall_scores, main_analysis, call, index_vars, eval_vars, load_vars>>

\* Lines 149-170: the metrics of a mode with at least one row; after the
\* last mode the analysis is returned to main().
Metrics ==
    /\ pc = "rows"
    /\ i = total
    /\ total # 0
    /\ analysis' = [d \in DOMAIN analysis \cup {DescTypes[mode]} |->
                        IF d = DescTypes[mode] THEN Summary ELSE analysis[d]]
    /\ IF mode < Len(DescTypes)
       THEN /\ mode' = mode + 1
            /\ pc' = "start"
            /\ main_analysis' = main_analysis
       ELSE /\ mode' = mode
            /\ pc' = "done"
            /\ main_analysis' = analysis'
    /\ UNCHANGED <<variant_to_procedure, variant_to_condition, rows_read, total, i,
                   exact_matches, procedure_matches, condition_matches,
                   procedure_precision_scores, procedure_recall_scores, row, call, index_vars, eval_vars, load_vars>>

\* Variant of EmptyBatch: the rates of an empty mode default to 0 and the
\* loop goes on.
EmptyBatch_Defaulted ==
    /\ pc = "rows"
    /\ i = total
    /\ total = 0
    /\ analysis' = [d \in DOMAIN analysis \cup {DescTypes[mode]} |->
                        IF d = DescTypes[mode]
                        THEN [total_queries |-> 0, exact_matches |-> 0,
                              procedure_matches |-> 0, condition_matches |-> 0,
                              exact_accuracy |-> Zero, procedure_accuracy |-> Zero,
                              condition_accuracy |-> Zero,
                              procedure_precision |-> Zero,
                              procedure_recall |-> Zero, procedure_f1 |-> Zero]
                        ELSE analysis[d]]
    /\ IF mode < Len(DescTypes)
       THEN /\ mode' = mode + 1
            /\ pc' = "start"
            /\ main_analysis' = main_analysis
       ELSE /\ mode' = mode
            /\ pc' = "done"
            /\ main_analysis' = analysis'
    /\ UNCHANGED <<variant_to_procedure, variant_to_condition, rows_read, total, i,
                   exact_matches, procedure_matches, condition_matches,
                   procedure_precision_scores, procedure_recall_scores, row, call, index_vars, eval_vars, load_vars>>

\* Line 149 with total = 0: exact_matches / total raises ZeroDivisionError,
\* which leaves analyze_partial_credit and is reported by main().
EmptyBatch ==
    /\ pc = "rows"
    /\ i = total
    /\ total = 0
    /\ pc' = "error"
    /\ UNCHANGED <<variant_to_procedure, variant_to_condition, analysis, mode,
                   rows_read, total, i, exact_matches, procedure_matches,
                   condition_matches, procedure_precision_scores,
                   procedure_recall_scores, row, main_analysis, call, index_vars, eval_vars, load_vars>>

Next ==
    \/ StartMode
    \/ ExactMatchRow
    \/ PartialCreditRow
    \/ ExtractionRaises
    \/ Metrics
    \/ EmptyBatch

Spec == Init /\ [][Next]_vars

\* --------------------------------- extract_procedures as a function of a cell
ScorerIdle ==
    /\ variant_to_procedure = EmptyDict
    /\ variant_to_condition = EmptyDict
    /\ analysis = EmptyDict
    /\ mode = 1
    /\ pc = "idle"
    /\ rows_read = 0
    /\ total = 0
    /\ i = 0
    /\ exact_matches = 0
    /\ procedure_matches = 0
    /\ condition_matches = 0
    /\ procedure_precision_scores = <<>>
    /\ procedure_recall_scores = <<>>
    /\ row = NoRow
    /\ main_analysis = EmptyDict

InitExtract ==
    /\ ScorerIdle
    /\ call \in {[arg |-> c, done |-> FALSE, result |-> Returned({})] : c \in Cells}
    /\ IndexIdle
    /\ EvalIdle
    /\ LoadIdle

\* Lines 22-44: one call of extract_procedures on the cell.
CallExtract ==
    /\ ~call.done
    /\ pc = "idle"
    /\ call' = [call EXCEPT !.done = TRUE, !.result = extract_procedures(call.arg)]
    /\ UNCHANGED <<scorer_vars, index_vars, eval_vars, load_vars>>

NextExtract == CallExtract

SpecExtract == InitExtract /\ [][NextExtract]_vars

\* ----------------------------------------- embed_acr.py and search_acr.py
\* The values of the columns of dataset/acr.csv: each variant comes with its
\* condition, and has a row for each of its procedures.
ConditionOf == [v \in Variants |-> IF v = "A" THEN "C1" ELSE "C2"]
Procedures == {"X", "Y"}
Appropriateness == {"Usually Appropriate"}

\* The rows dataset/acr.csv can hold: one per (variant, procedure).
AcrRows ==
    {[Condition |-> ConditionOf[v], Variant |-> v, Procedure |-> p, Appropriateness |-> a] :
        v \in Variants, p \in Procedures, a \in Appropriateness}

\* Embeddings, as points of a line.
Vectors == {0, 1}

\* embedding <-> vector: the distance of two points.
Distance(a, b) == IF a >= b THEN a - b ELSE b - a

\* The encoder embed_acr.py loads and the one search_acr.py loads.
BuildModel == "neuml/pubmedbert-base-embeddings"
SearchModel == "neuml/pubmedbert-base-embeddings"

\* embed_acr.py line 36: the text embedded for a row of the source table.
CombinedText(r) == "Condition: " \o r.Condition \o " | Clinical Scenario: " \o r.Variant

\* Variant of QueryText: the query is put in a template before it is embedded.
QueryText_Template(query) == "Clinical Scenario: " \o query

\* search_acr.py line 18: the text embedded for a query is the query itself.
QueryText(query) == query

\* model.encode(text) returns vec: the encoder is a function of the model and
\* the text, so a text that was encoded before gets the vector it got then.
Encode(model, text, vec) ==
    LET key == <<model, text>> IN
        /\ key \in DOMAIN encoder => vec = encoder[key]
        /\ encoder' = (key :> vec) @@ encoder

ScorerOff ==
    /\ variant_to_procedure = EmptyDict
    /\ variant_to_condition = EmptyDict
    /\ ScorerIdle
    /\ call = CallIdle

InitIndex ==
    /\ ScorerOff
    /\ acr_csv \in SeqsUpTo(AcrRows, MaxCatalog)
    /\ acr_embeddings = <<>>
    /\ build_pc = "create"
    /\ encoder = EmptyDict
    /\ search_call = NoSearch
    /\ EvalIdle
    /\ LoadIdle

\* embed_acr.py lines 20-32: DROP TABLE IF EXISTS, CREATE TABLE.
CreateTable ==
    /\ build_pc = "create"
    /\ acr_embeddings' = <<>>
    /\ build_pc' = "insert"
    /\ UNCHANGED <<scorer_vars, call, load_vars, eval_vars, acr_csv, encoder, search_call>>

\* The record inserted for row r: id is the SERIAL key.
NewRecord(r, vec) ==
    [id |-> Len(acr_embeddings) + 1,
     condition |-> r.Condition, variant |-> r.Variant, procedure |-> r.Procedure,
     appropriateness |-> r.Appropriateness,
     combined_text |-> CombinedText(r), embedding |-> vec]

\* embed_acr.py lines 34-50: one turn of the loop over the rows of df.
InsertRow ==
    /\ build_pc = "insert"
    /\ Len(acr_embeddings) < Len(acr_csv)
    /\ LET r == acr_csv[Len(acr_embeddings) + 1] IN
          \E vec \in Vectors :
              /\ Encode(BuildModel, CombinedText(r), vec)
              /\ acr_embeddings' = Append(acr_embeddings, NewRecord(r, vec))
    /\ UNCHANGED <<scorer_vars, call, load_vars, eval_vars, acr_csv, build_pc, search_call>>

\* The rows of table that are the first of their variant.
RECURSIVE FirstOfVariant(_)
FirstOfVariant(table) ==
    IF table = <<>> THEN <<>>
    ELSE LET front == SubSeq(table, 1, Len(table) - 1)
             last == table[Len(table)]
         IN  IF \E k \in DOMAIN front : front[k].variant = last.variant
             THEN FirstOfVariant(front)
             ELSE Append(FirstOfVariant(front), last)

\* Variant of Commit: the table is left with one row for each variant.
Commit_OnePerVariant ==
    /\ build_pc = "insert"
    /\ Len(acr_embeddings) = Len(acr_csv)
    /\ build_pc' = "done"
    /\ acr_embeddings' = FirstOfVariant(acr_embeddings)
    /\ UNCHANGED <<scorer_vars, call, load_vars, eval_vars, acr_csv, encoder, search_call>>

\* embed_acr.py lines 52-54: conn.commit() after the loop.
Commit ==
    /\ build_pc = "insert"
    /\ Len(acr_embeddings) = Len(acr_csv)
    /\ build_pc' = "done"
    /\ UNCHANGED <<scorer_vars, call, load_vars, eval_vars, acr_csv, acr_embeddings, encoder, search_call>>

Min(a, b) == IF a <= b THEN a ELSE b

\* The orders of the ids 1 .. n.
Orders(n) == {o \in [1 .. n -> 1 .. n] : \A j, k \in 1 .. n : o[j] = o[k] => j = k}

\* ORDER BY embedding <-> vec: every order of the rows in which the distance
\* to vec never decreases; rows at the same distance come in any order.
NearestOrders(table, vec) ==
    {o \in Orders(Len(table)) :
        \A j \in 1 .. Len(table) - 1 :
            Distance(table[o[j]].embedding, vec) <= Distance(table[o[j + 1]].embedding, vec)}

\* SELECT condition, variant, procedure, appropriateness, distance ... LIMIT limit
Fetch(table, o, vec, limit) ==
    [j \in 1 .. Min(limit, Len(table)) |->
        [condition |-> table[o[j]].condition, variant |-> table[o[j]].variant,
         procedure |-> table[o[j]].procedure,
         appropriateness |-> table[o[j]].appropriateness,
         distance |-> Distance(table[o[j]].embedding, vec)]]

\* The limits search() is called with: the default, and one.
SearchLimits == {1, 5}

\* search_acr.py lines 13-27: search(query, limit).
Search ==
    /\ build_pc = "done"
    /\ \E query \in Variants, limit \in SearchLimits, vec \in Vectors :
          /\ Encode(SearchModel, QueryText(query), vec)
          /\ \E o \in NearestOrders(acr_embeddings, vec) :
                search_call' =
                    [made |-> TRUE, query |-> query, limit |-> limit,
                     model |-> SearchModel, text |-> QueryText(query),
                     embedding |-> vec,
                     results |-> Fetch(acr_embeddings, o, vec, limit)]
    /\ UNCHANGED <<scorer_vars, call, load_vars, eval_vars, acr_csv, acr_embeddings, build_pc>>

NextIndex == CreateTable \/ InsertRow \/ Commit \/ Search

SpecIndex == InitIndex /\ [][NextIndex]_vars

\* ------------------------------------ test_embedding_accuracy_3desc.py
\* The encoder the evaluator loads (line 9).
EvalModel == "neuml/pubmedbert-base-embeddings"

\* A missing synthetic description (pd.isna), and the descriptions there are.
NaN == "<NaN>"
Descriptions == {"chest pain"}

\* LIMIT of the evaluator's query (line 57).
EvalLimit == 1

\* round(x, digits) of a non-negative x: to the nearest, halves to even.
Pow10(digits) == IF digits = 4 THEN 10000 ELSE 1000000
Round(x, digits) ==
    LET n == x[1] * Pow10(digits)
        q == n \div x[2]
        rem == n % x[2]
        up == 2 * rem > x[2] \/ (2 * rem = x[2] /\ q % 2 = 1)
    IN  Ratio(IF up THEN q + 1 ELSE q, Pow10(digits))

\* np.mean(distances) of a non-empty list.
RECURSIVE SumOf(_)
SumOf(q) == IF q = <<>> THEN 0 ELSE Head(q) + SumOf(Tail(q))
Mean(q) == Ratio(SumOf(q), Len(q))

\* The table embed_acr.py leaves for the source rows csv under encoder enc.
BuiltTable(csv, enc) ==
    [k \in 1 .. Len(csv) |->
        [id |-> k,
         condition |-> csv[k].Condition, variant |-> csv[k].Variant,
         procedure |-> csv[k].Procedure, appropriateness |-> csv[k].Appropriateness,
         combined_text |-> CombinedText(csv[k]),
         embedding |-> enc[<<BuildModel, CombinedText(csv[k])>>]]]

\* The source tables the evaluator is run against: an empty one, one with two
\* procedures of a variant, and one with a procedure of each variant.
EvalCatalogs ==
    {<<>>} \cup {<<r1, r2>> : r1 \in {r \in AcrRows : r.Variant = "A" /\ r.Procedure = "X"},
                              r2 \in {r \in AcrRows : r.Procedure = "Y" \/ r.Variant = "B"}
                                        \ {r \in AcrRows : r.Procedure = "Y" /\ r.Variant = "B"}}

\* The encoders the table was built with: the texts of two variants are
\* embedded apart.
BuildEncoders(csv) ==
    LET keys == {<<BuildModel, CombinedText(csv[k])>> : k \in 1 .. Len(csv)} IN
        {enc \in [keys -> Vectors] : \A j, k \in keys : enc[j] = enc[k] => j = k}

\* The evaluator starts on a committed table and a cases file.
InitEval ==
    /\ ScorerOff
    /\ acr_csv \in EvalCatalogs
    /\ encoder \in BuildEncoders(acr_csv)
    /\ acr_embeddings = BuiltTable(acr_csv, encoder)
    /\ build_pc = "done"
    /\ search_call = NoSearch
    /\ df \in SeqsUpTo(Variants, MaxCases)
    /\ eval_pc = "mode"
    /\ desc_type = 1
    /\ idx = 0
    /\ total_queries = 0
    /\ correct_matches = 0
    /\ distances = <<>>
    /\ all_results = <<>>
    /\ results_summary = EmptyDict
    /\ executed = <<>>
    /\ saved = NothingSaved
    /\ LoadIdle

\* Lines 33-38: a mode starts, its counters are reset.
EvalStartMode ==
    /\ eval_pc = "mode"
    /\ correct_matches' = 0
    /\ total_queries' = 0
    /\ distances' = <<>>
    /\ executed' = <<>>
    /\ idx' = 0
    /\ eval_pc' = "rows"
    /\ UNCHANGED <<scorer_vars, call, load_vars, index_vars, df, desc_type, all_results,
                   results_summary, saved>>

\* Lines 40-45: the row has no description for this mode.
SkipRow ==
    /\ eval_pc = "rows"
    /\ idx < Len(df)
    /\ idx' = idx + 1
    /\ UNCHANGED <<scorer_vars, call, load_vars, index_vars, df, eval_pc, desc_type,
                   total_queries, correct_matches, distances, all_results,
                   results_summary, executed, saved>>

\* Lines 72-81: the detail record of a query that returned result.
DetailRecord(original_variant, synthetic_desc, result) ==
    [description_type |-> DescTypes[desc_type],
     query_id |-> idx + 1,
     original_variant |-> original_variant,
     synthetic_description |-> synthetic_desc,
     retrieved_condition |-> result.condition,
     retrieved_variant |-> result.variant,
     exact_match |-> IF result.variant = original_variant THEN "Yes" ELSE "No",
     euclidean_distance |-> Round(<<result.distance, 1>>, 6)]

\* Variant of Tally: the detail record is put in front of the list.
Tally_Prepend(original_variant, synthetic_desc, fetched) ==
    IF fetched # <<>>
    THEN /\ distances' = Append(distances, fetched[1].distance)
         /\ correct_matches' =
                IF fetched[1].variant = original_variant
                THEN correct_matches + 1 ELSE correct_matches
         /\ all_results' =
                <<DetailRecord(original_variant, synthetic_desc, fetched[1])>> \o all_results
    ELSE UNCHANGED <<distances, correct_matches, all_results>>

\* Lines 63-81: what the row adds to the tallies, fetched being the rows the
\* cursor holds (fetchone gives the first, or None when there is none).
Tally(original_variant, synthetic_desc, fetched) ==
    IF fetched # <<>>
    THEN /\ distances' = Append(distances, fetched[1].distance)
         /\ correct_matches' =
                IF fetched[1].variant = original_variant
                THEN correct_matches + 1 ELSE correct_matches
         /\ all_results' =
                Append(all_results, DetailRecord(original_variant, synthetic_desc, fetched[1]))
    ELSE UNCHANGED <<distances, correct_matches, all_results>>

\* Lines 40-81: the row has a description; it is encoded and queried.
QueryRow ==
    /\ eval_pc = "rows"
    /\ idx < Len(df)
    /\ \E synthetic_desc \in Descriptions, vec \in Vectors :
          /\ total_queries' = total_queries + 1
          /\ Encode(EvalModel, QueryText(synthetic_desc), vec)
          /\ executed' = Append(executed, EvalLimit)
          /\ \E o \in NearestOrders(acr_embeddings, vec) :
                Tally(df[idx + 1], synthetic_desc, Fetch(acr_embeddings, o, vec, EvalLimit))
    /\ idx' = idx + 1
    /\ UNCHANGED <<scorer_vars, call, load_vars, acr_csv, acr_embeddings, build_pc, search_call,
                   df, eval_pc, desc_type, results_summary, saved>>

\* Lines 47-61, 167-176: model.encode or cur.execute raises; nothing in the
\* loop catches it, main prints it and returns None.
QueryRaises ==
    /\ eval_pc = "rows"
    /\ idx < Len(df)
    /\ total_queries' = total_queries + 1
    /\ eval_pc' = "failed"
    /\ UNCHANGED <<scorer_vars, call, load_vars, index_vars, df, desc_type, idx, correct_matches,
                   distances, all_results, results_summary, executed, saved>>

\* Lines 90-96: the summary of the mode.
ModeSummary ==
    LET accuracy == IF total_queries > 0 THEN Ratio(correct_matches, total_queries) ELSE Zero
        mean_distance == IF distances # <<>> THEN Mean(distances) ELSE Zero
    IN  [description_type |-> DescTypes[desc_type],
         total_queries |-> total_queries,
         exact_matches |-> correct_matches,
         accuracy |-> Round(accuracy, 4),
         mean_distance |-> Round(mean_distance, 6)]

\* Lines 86-100: the loop over the rows is over, the mode is summarised.
EvalMetrics ==
    /\ eval_pc = "rows"
    /\ idx = Len(df)
    /\ results_summary' = (DescTypes[desc_type] :> ModeSummary) @@ results_summary
    /\ IF desc_type < Len(DescTypes)
       THEN desc_type' = desc_type + 1 /\ eval_pc' = "mode"
       ELSE desc_type' = desc_type /\ eval_pc' = "save"
    /\ UNCHANGED <<scorer_vars, call, load_vars, index_vars, df, idx, total_queries, correct_matches,
                   distances, all_results, executed, saved>>

\* Lines 102-115: the two files are written, the summary is returned.
Save ==
    /\ eval_pc = "save"
    /\ saved' = [written |-> TRUE, details |-> all_results,
                 summary |-> [k \in 1 .. Len(DescTypes) |-> results_summary[DescTypes[k]]]]
    /\ eval_pc' = "done"
    /\ UNCHANGED <<scorer_vars, call, load_vars, index_vars, df, desc_type, idx, total_queries,
                   correct_matches, distances, all_results, results_summary, executed>>

NextEval == EvalStartMode \/ SkipRow \/ QueryRow \/ QueryRaises \/ EvalMetrics \/ Save

SpecEval == InitEval /\ [][NextEval]_vars

\* ------------------------------------------------------ load_acr_mapping
\* Variant texts, as sequences of characters: one with a '.', one without.
VariantTexts == {<<"c", ".", "a">>, <<"d">>}
\* The values of column Condition of the ACR dataset.
AcrConditions == {"C1", "C2"}
\* The values of column procedure_json of results/synthetic.csv.
SyntheticCells == {GarbageCell, JsonCell(NumVal(5))}

SyntheticRows == {[Variant |-> v, procedure_json |-> c] : v \in VariantTexts, c \in SyntheticCells}
ConditionRows == {[Condition |-> c, Variant |-> v] : c \in AcrConditions, v \in VariantTexts}

\* Line 77: variant[:50].
PrefixLen == 50

\* Line 77: variant.split('.')[0] if '.' in variant else variant[:50].
FallbackCondition(variant) ==
    IF \E k \in DOMAIN variant : variant[k] = "."
    THEN LET dot == CHOOSE k \in DOMAIN variant :
                        /\ variant[k] = "."
                        /\ \A j \in 1 .. k - 1 : variant[j] # "."
         IN  SubSeq(variant, 1, dot - 1)
    ELSE SubSeq(variant, 1, Min(PrefixLen, Len(variant)))

\* condition_to_variants[condition].add(variant) on a defaultdict(set).
AddVariant(dict, condition, variant) ==
    (condition :> (Get(dict, condition, {}) \cup {variant})) @@ dict

InitMapping ==
    /\ variant_to_procedure = EmptyDict
    /\ variant_to_condition = EmptyDict
    /\ ScorerIdle
    /\ call = CallIdle
    /\ IndexIdle
    /\ EvalIdle
    /\ df_synthetic \in SeqsUpTo(SyntheticRows, MaxCatalog)
    /\ df_acr \in {[found |-> FALSE, rows |-> <<>>]}
                   \cup {[found |-> TRUE, rows |-> q] : q \in SeqsUpTo(ConditionRows, MaxCatalog)}
    /\ load_pc = "synthetic"
    /\ load_i = 0
    /\ condition_to_variants = EmptyDict

\* Lines 51-54: one turn of the loop over the rows of synthetic.csv.
LoadSyntheticRow ==
    /\ load_pc = "synthetic"
    /\ load_i < Len(df_synthetic)
    /\ LET r == df_synthetic[load_i + 1] IN
          variant_to_procedure' = (r.Variant :> r.procedure_json) @@ variant_to_procedure
    /\ load_i' = load_i + 1
    /\ UNCHANGED <<variant_to_condition, analysis, mode, pc, rows_read, total, i,
                   exact_matches, procedure_matches, condition_matches,
                   procedure_precision_scores, procedure_recall_scores, row,
                   main_analysis, call, index_vars, eval_vars,
                   df_synthetic, df_acr, load_pc, condition_to_variants>>

\* Lines 57-60: the ACR dataset is read, the two maps are created.
ReadAcr ==
    /\ load_pc = "synthetic"
    /\ load_i = Len(df_synthetic)
    /\ df_acr.found
    /\ condition_to_variants' = EmptyDict
    /\ variant_to_condition' = EmptyDict
    /\ load_i' = 0
    /\ load_pc' = "rows"
    /\ UNCHANGED <<variant_to_procedure, analysis, mode, pc, rows_read, total, i,
                   exact_matches, procedure_matches, condition_matches,
                   procedure_precision_scores, procedure_recall_scores, row,
                   main_analysis, call, index_vars, eval_vars, df_synthetic, df_acr>>

\* Lines 62-66: one turn of the loop over the rows of the ACR dataset.
LoadAcrRow ==
    /\ load_pc = "rows"
    /\ load_i < Len(df_acr.rows)
    /\ LET condition == df_acr.rows[load_i + 1].Condition
           variant == df_acr.rows[load_i + 1].Variant
       IN  /\ condition_to_variants' = AddVariant(condition_to_variants, condition, variant)
           /\ variant_to_condition' = (variant :> condition) @@ variant_to_condition
    /\ load_i' = load_i + 1
    /\ UNCHANGED <<variant_to_procedure, analysis, mode, pc, rows_read, total, i,
                   exact_matches, procedure_matches, condition_matches,
                   procedure_precision_scores, procedure_recall_scores, row,
                   main_analysis, call, index_vars, eval_vars,
                   df_synthetic, df_acr, load_pc>>

\* Lines 68-79: the file is not found; the condition of every variant of
\* variant_to_procedure is taken from its text.
ReadAcrFails ==
    /\ load_pc = "synthetic"
    /\ load_i = Len(df_synthetic)
    /\ ~df_acr.found
    /\ variant_to_condition' =
          [variant \in DOMAIN variant_to_procedure |-> FallbackCondition(variant)]
    /\ condition_to_variants' =
          [condition \in {FallbackCondition(v) : v \in DOMAIN variant_to_procedure} |->
              {v \in DOMAIN variant_to_procedure : FallbackCondition(v) = condition}]
    /\ load_pc' = "done"
    /\ UNCHANGED <<variant_to_procedure, analysis, mode, pc, rows_read, total, i,
                   exact_matches, procedure_matches, condition_matches,
                   procedure_precision_scores, procedure_recall_scores, row,
                   main_analysis, call, index_vars, eval_vars,
                   df_synthetic, df_acr, load_i>>

\* Line 81: the three maps are returned.
LoadReturn ==
    /\ load_pc = "rows"
    /\ load_i = Len(df_acr.rows)
    /\ load_pc' = "done"
    /\ UNCHANGED <<scorer_vars, call, index_vars, eval_vars,
                   df_synthetic, df_acr, load_i, condition_to_variants>>

NextMapping == LoadSyntheticRow \/ ReadAcr \/ LoadAcrRow \/ ReadAcrFails \/ LoadReturn

SpecMapping == InitMapping /\ [][NextMapping]_vars

\* ------------------------------------------------------------- properties
Last(q) == q[Len(q)]
\* A step of the loop of lines 109-146: the loop takes its next row, row'.
RowStep == i' = i + 1
RowIsExact(rw) == rw.original_variant = rw.retrieved_variant
\* The row of the current iteration has been scored (no exception ended it).
RowScored == pc = "rows" /\ i >= 1 /\ Len(procedure_precision_scores) = i
\* The two procedure sets of a row, as lines 123-124 extract them.
ExpectedSet(rw) == OriginalProcedures(rw.original_variant).set
RetrievedSet(rw) == RetrievedProcedures(rw.retrieved_variant).set

\* C1: a row whose retrieved variant equals its expected variant is scored
\* exact, procedure and condition match with precision = recall = 1.0 and
\* never reaches the extraction or the condition lookup, whatever the two
\* maps hold for the variant; and every row counted as an exact match is
\* counted as a procedure match and as a condition match.
C1_ExactRowShortCircuits ==
    [][RowStep =>
        /\ RowIsExact(row') =>
              /\ pc' = "rows"
              /\ exact_matches' = exact_matches + 1
              /\ procedure_matches' = procedure_matches + 1
              /\ condition_matches' = condition_matches + 1
              /\ procedure_precision_scores' = Append(procedure_precision_scores, One)
              /\ procedure_recall_scores' = Append(procedure_recall_scores, One)
        /\ exact_matches' = exact_matches + 1 =>
              /\ procedure_matches' = procedure_matches + 1
              /\ condition_matches' = condition_matches + 1
      ]_vars

\* An exact row has been scored for a variant that is in neither map.
C1_Witness ==
    /\ RowScored
    /\ RowIsExact(row)
    /\ row.original_variant \notin DOMAIN variant_to_procedure
    /\ row.original_variant \notin DOMAIN variant_to_condition
    /\ exact_matches >= 1
    /\ Last(procedure_precision_scores) = One

\* C2: for a non-exact row whose two procedure sets are non-empty, with I
\* their intersection: the row counts as a procedure match iff I is not
\* empty, its precision is |I| / |P_retrieved| and its recall is
\* |I| / |P_expected|; {X, Y} against {X, Z} gives a match with 0.5 and 0.5.
C2_OverlapScores ==
    [][(RowStep /\ pc' = "rows" /\ ~RowIsExact(row')
             /\ ExpectedSet(row') # {} /\ RetrievedSet(row') # {}) =>
        LET I == ExpectedSet(row') \cap RetrievedSet(row')
            precision == Last(procedure_precision_scores')
            recall == Last(procedure_recall_scores')
        IN  /\ procedure_matches' = procedure_matches + (IF I # {} THEN 1 ELSE 0)
            /\ Len(procedure_precision_scores') = i'
            /\ Len(procedure_recall_scores') = i'
            /\ precision[1] * Cardinality(RetrievedSet(row')) = Cardinality(I) * precision[2]
            /\ recall[1] * Cardinality(ExpectedSet(row')) = Cardinality(I) * recall[2]
            /\ (ExpectedSet(row') = {"X", "Y"} /\ RetrievedSet(row') = {"X", "Z"}) =>
                  /\ procedure_matches' = procedure_matches + 1
                  /\ precision = <<1, 2>>
                  /\ recall = <<1, 2>>
      ]_vars

\* A non-exact row with expected {X, Y} and retrieved {X, Z} has been scored.
C2_Witness ==
    /\ RowScored
    /\ ~RowIsExact(row)
    /\ ExpectedSet(row) = {"X", "Y"}
    /\ RetrievedSet(row) = {"X", "Z"}
    /\ procedure_matches >= 1
    /\ Last(procedure_precision_scores) = <<1, 2>>
    /\ Last(procedure_recall_scores) = <<1, 2>>

\* C3: for a non-exact row one of whose procedure sets is empty (also when
\* the variant is not in the procedure map), precision = recall = 0, the row
\* is no procedure match, and its condition match is still evaluated and
\* counted.
C3_EmptySetScores ==
    [][(RowStep /\ pc' = "rows" /\ ~RowIsExact(row')
             /\ (ExpectedSet(row') = {} \/ RetrievedSet(row') = {})) =>
        /\ procedure_matches' = procedure_matches
        /\ procedure_precision_scores' = Append(procedure_precision_scores, Zero)
        /\ procedure_recall_scores' = Append(procedure_recall_scores, Zero)
        /\ condition_matches' = condition_matches
              + (IF ConditionMatch(row'.original_variant, row'.retrieved_variant)
                 THEN 1 ELSE 0)
      ]_vars

\* The first row of a mode is non-exact, its retrieved variant is not in the
\* procedure map, its expected set is not empty, and it counted as a
\* condition match with scores 0.
C3_Witness ==
    /\ RowScored
    /\ i = 1
    /\ ~RowIsExact(row)
    /\ row.retrieved_variant \notin DOMAIN variant_to_procedure
    /\ ExpectedSet(row) # {}
    /\ Last(procedure_precision_scores) = Zero
    /\ Last(procedure_recall_scores) = Zero
    /\ procedure_matches = 0
    /\ condition_matches = 1

\* C4: for a non-exact row, the row counts as a condition match exactly
\* when its two variants are in the condition map with equal conditions; a
\* row with a variant that is not in the map is no condition match.
C4_ConditionMatchIffEqual ==
    [][(RowStep /\ pc' = "rows" /\ ~RowIsExact(row')) =>
        LET o == row'.original_variant
            r == row'.retrieved_variant
            same == /\ o \in DOMAIN variant_to_condition
                    /\ r \in DOMAIN variant_to_condition
                    /\ variant_to_condition[o] = variant_to_condition[r]
        IN  condition_matches' = condition_matches + (IF same THEN 1 ELSE 0)
      ]_vars

\* The summary of the mode that was computed last (Metrics has just run).
JustSummarised ==
    \/ pc = "done"
    \/ pc = "start" /\ mode > 1
LastSummary == analysis[DescTypes[IF pc = "done" THEN mode ELSE mode - 1]]

\* C5: after any prefix of the rows of a mode,
\* exact_matches <= procedure_matches <= rows scored and
\* exact_matches <= condition_matches <= rows scored; every summary has
\* exact_accuracy <= procedure_accuracy and exact_accuracy <= condition_accuracy.
C5_CountersOrdered ==
    /\ exact_matches <= procedure_matches
    /\ procedure_matches <= Len(procedure_precision_scores)
    /\ exact_matches <= condition_matches
    /\ condition_matches <= Len(procedure_precision_scores)
    /\ \A d \in DOMAIN analysis :
          /\ RLeq(analysis[d].exact_accuracy, analysis[d].procedure_accuracy)
          /\ RLeq(analysis[d].exact_accuracy, analysis[d].condition_accuracy)
          /\ RLeq(analysis[d].procedure_accuracy, One)
          /\ RLeq(analysis[d].condition_accuracy, One)

\* A summary with an exact match and strictly more procedure matches and
\* condition matches than exact matches.
C5_Witness ==
    \E d \in DOMAIN analysis :
        /\ analysis[d].exact_matches >= 1
        /\ analysis[d].procedure_matches > analysis[d].exact_matches
        /\ analysis[d].condition_matches > analysis[d].exact_matches
        /\ analysis[d].exact_accuracy # analysis[d].procedure_accuracy

\* C6: in every summary procedure_f1 is 0 iff the average precision and the
\* average recall are both 0, the two averages are 0 together, and
\* procedure_f1 * (P + R) = 2 * P * R.
C6_F1HarmonicMean ==
    \A d \in DOMAIN analysis :
        LET P == analysis[d].procedure_precision
            R == analysis[d].procedure_recall
            F == analysis[d].procedure_f1
        IN  /\ F = Zero <=> (P = Zero /\ R = Zero)
            /\ P = Zero <=> R = Zero
            /\ F[2] > 0
            /\ F[1] * (P[1] * R[2] + R[1] * P[2]) = 2 * P[1] * R[1] * F[2]

\* A summary of at least two rows whose averages differ and are not 0.
C6_Witness ==
    \E d \in DOMAIN analysis :
        /\ analysis[d].total_queries >= 2
        /\ analysis[d].procedure_precision # analysis[d].procedure_recall
        /\ analysis[d].procedure_f1 # Zero

\* C7: a mode with no rows ends the analysis with an error: no summary is
\* stored for the mode, nothing is returned to main(), no step follows the
\* error, and no stored summary has total_queries = 0.
C7_EmptyBatchFails ==
    [][/\ (pc = "rows" /\ total = 0) =>
              /\ pc' = "error"
              /\ analysis' = analysis
              /\ DescTypes[mode] \notin DOMAIN analysis'
              /\ main_analysis' = EmptyDict
       /\ pc # "error"
       /\ \A d \in DOMAIN analysis' : analysis'[d].total_queries >= 1
      ]_vars

\* The second mode had no rows after the first was summarised.
C7_Witness ==
    /\ pc = "error"
    /\ total = 0
    /\ mode = 2
    /\ DOMAIN analysis = {"desc_1"}
    /\ main_analysis = EmptyDict

InUnit(score) == score[2] > 0 /\ RLeq(Zero, score) /\ RLeq(score, One)

\* C8: every row scored so far has one precision and one recall score, each
\* in [0,1]; when a mode is summarised the two lists have total entries and
\* the averages are their sums divided by total, in [0,1].
C8_OneScorePerRecord ==
    /\ pc = "rows" =>
          /\ Len(procedure_precision_scores) = i
          /\ Len(procedure_recall_scores) = i
    /\ \A k \in 1 .. Len(procedure_precision_scores) :
          InUnit(procedure_precision_scores[k])
    /\ \A k \in 1 .. Len(procedure_recall_scores) :
          InUnit(procedure_recall_scores[k])
    /\ JustSummarised =>
          /\ Len(procedure_precision_scores) = total
          /\ Len(procedure_recall_scores) = total
          /\ LastSummary.total_queries = total
          /\ RMul(LastSummary.procedure_precision, <<total, 1>>)
                 = RSum(procedure_precision_scores)
          /\ RMul(LastSummary.procedure_recall, <<total, 1>>)
                 = RSum(procedure_recall_scores)
    /\ \A d \in DOMAIN analysis :
          /\ InUnit(analysis[d].procedure_precision)
          /\ InUnit(analysis[d].procedure_recall)

\* A mode of two rows, an exact one and one of precision 1/2 and recall 1,
\* has been summarised.
C8_Witness ==
    /\ JustSummarised
    /\ procedure_precision_scores = <<One, <<1, 2>>>>
    /\ procedure_recall_scores = <<One, One>>
    /\ LastSummary.procedure_precision = <<3, 4>>
    /\ LastSummary.procedure_recall = One

\* What the procedure entry proc is to contribute to the set of identifiers:
\* its code and its name when it is a dict that has them, else its str.
EntryIdentifiers(proc) ==
    IF proc.kind = "dict" /\ (proc.code # NoKey \/ proc.name # NoKey)
    THEN {proc.code, proc.name} \ {NoKey}
    ELSE {StrOf(proc)}

\* C9: for every cell, extract_procedures returns a set and does not raise,
\* and an unparsable cell gives the empty set.
C9_ExtractNeverRaises ==
    call.done =>
        /\ ~call.result.raised
        /\ (~call.arg.isna /\ call.arg.syntax = "garbage") => call.result.set = {}

\* C10: extract_procedures returns the union of the identifiers of all the
\* entries of the parsed list, wherever an entry stands in the list.
C10_ExtractIsUnionOfEntries ==
    (call.done /\ ~call.result.raised /\ safe_parse_json(call.arg).ty = "list") =>
        LET items == safe_parse_json(call.arg).items
        IN  call.result.set = UNION {EntryIdentifiers(items[k]) : k \in 1 .. Len(items)}

\* C11: the aggregation runs once per mode and never across modes: a mode
\* starts with every counter at 0 and both score lists empty, a row changes
\* no stored summary, the metrics store the summary of the current mode only,
\* from the counters of this mode, a stored summary never changes afterwards,
\* and no mode is summarised twice.
C11_OneSummaryPerMode ==
    [][/\ (pc = "start" /\ pc' = "rows") =>
              /\ exact_matches' = 0
              /\ procedure_matches' = 0
              /\ condition_matches' = 0
              /\ procedure_precision_scores' = <<>>
              /\ procedure_recall_scores' = <<>>
              /\ DescTypes[mode'] \notin DOMAIN analysis'
       /\ RowStep => analysis' = analysis
       /\ \A d \in DOMAIN analysis : d \in DOMAIN analysis' /\ analysis'[d] = analysis[d]
       /\ analysis' # analysis =>
              /\ DOMAIN analysis' = DOMAIN analysis \cup {DescTypes[mode]}
              /\ DescTypes[mode] \notin DOMAIN analysis
              /\ analysis'[DescTypes[mode]].total_queries = i
              /\ i = total
              /\ analysis'[DescTypes[mode]].exact_matches = exact_matches
              /\ analysis'[DescTypes[mode]].procedure_matches = procedure_matches
              /\ analysis'[DescTypes[mode]].condition_matches = condition_matches
              /\ procedure_matches <= i
              /\ condition_matches <= i
              /\ Len(procedure_precision_scores) = i
              /\ Len(procedure_recall_scores) = i
      ]_vars

\* The second mode has been summarised with no exact match after a first
\* mode in which every row was an exact match.
C11_Witness ==
    /\ DOMAIN analysis = {"desc_1", "desc_2"}
    /\ analysis["desc_1"].exact_matches = analysis["desc_1"].total_queries
    /\ analysis["desc_2"].exact_matches = 0
    /\ analysis["desc_2"].procedure_matches = 0
    /\ analysis["desc_2"].procedure_precision = Zero

\* The detail records of mode d, as positions of all_results.
RecordsOf(d) == {k \in DOMAIN all_results : all_results[k].description_type = d}

\* C12: within one mode the evaluator runs exactly one LIMIT 1 query for each
\* input element (a row that has a description for the mode: total_queries
\* counts them), none for a row without one, and the detail records of a mode
\* are in the order of the rows they come from.
C12_OneQueryPerElementInOrder ==
    /\ eval_pc \in {"mode", "rows", "save", "done"} => Len(executed) = total_queries
    /\ Len(executed) <= idx
    /\ \A k \in DOMAIN executed : executed[k] = 1
    /\ \A j, k \in DOMAIN all_results :
          (j < k /\ all_results[j].description_type = all_results[k].description_type)
              => all_results[j].query_id < all_results[k].query_id
    /\ \A k \in DOMAIN all_results :
          /\ all_results[k].query_id \in 1 .. Len(df)
          /\ all_results[k].original_variant = df[all_results[k].query_id]

\* The run is over; the first mode queried both rows and recorded them in
\* order, the second mode skipped a row.
C12_Witness ==
    /\ eval_pc = "done"
    /\ Len(df) = 2
    /\ results_summary["desc_1"].total_queries = 2
    /\ Len(all_results) >= 3
    /\ all_results[1].query_id = 1
    /\ all_results[2].query_id = 2
    /\ results_summary["desc_2"].total_queries = 1
    /\ all_results[3].description_type = "desc_2"

\* C13: a query that yields no result is left out of the accuracy
\* denominator: the total_queries of a summarised mode, by which accuracy
\* divides, is the number of queries of the mode that returned a result, and
\* accuracy is exact matches over that number.
C13_NoResultNotInDenominator ==
    \A d \in DOMAIN results_summary :
        LET returned == Cardinality(RecordsOf(d)) IN
            /\ results_summary[d].total_queries = returned
            /\ returned > 0 =>
                  results_summary[d].accuracy =
                      Round(Ratio(results_summary[d].exact_matches, returned), 4)

\* C14: with an empty index the evaluation never completes with a summary of
\* modes whose queries had no top hit.
C14_EmptyIndexFails ==
    ~ /\ acr_embeddings = <<>>
      /\ eval_pc = "done"
      /\ \E d \in DOMAIN results_summary : results_summary[d].total_queries > 0

\* C15: the failure of the encoding or the query of one item does not abort
\* the run: the run is never over with nothing reported.
C15_FailedItemDoesNotAbort ==
    eval_pc = "failed" => saved.written

StableOrder(table, vec) ==
    CHOOSE o \in NearestOrders(table, vec) :
        \A j \in 1 .. Len(table) - 1 :
            Distance(table[o[j]].embedding, vec) = Distance(table[o[j + 1]].embedding, vec)
                => o[j] < o[j + 1]

\* C17: a query returns the min(k, n) nearest rows by ascending distance,
\* rows at equal distance in insertion order; so the same query with the same
\* k over the unchanged table returns the same rows in the same order.
C17_SameQuerySameResult ==
    [][search_call'.made =>
          /\ search_call'.results =
                Fetch(acr_embeddings', StableOrder(acr_embeddings', search_call'.embedding),
                      search_call'.embedding, search_call'.limit)
          /\ (/\ search_call.made
              /\ search_call'.query = search_call.query
              /\ search_call'.limit = search_call.limit
              /\ acr_embeddings' = acr_embeddings)
                 => search_call'.results = search_call.results
      ]_vars

RECURSIVE LoadedConditions(_)
LoadedConditions(rows) ==
    IF rows = <<>> THEN EmptyDict
    ELSE (rows[Len(rows)].Variant :> rows[Len(rows)].Condition)
             @@ LoadedConditions(SubSeq(rows, 1, Len(rows) - 1))

\* C19: after load_acr_mapping every variant is in exactly one set of
\* condition_to_variants, the set of the condition variant_to_condition gives
\* it, and the conditions of the variants (so the condition match of two
\* variants) are the same for the catalog rows taken in any order.
C19_VariantInOneCondition ==
    load_pc = "done" =>
        /\ \A v \in DOMAIN variant_to_condition :
              {c \in DOMAIN condition_to_variants : v \in condition_to_variants[c]}
                  = {variant_to_condition[v]}
        /\ df_acr.found =>
              \A o \in Orders(Len(df_acr.rows)) :
                  LoadedConditions([k \in 1 .. Len(df_acr.rows) |-> df_acr.rows[o[k]]])
                      = variant_to_condition

TypeOK ==
    /\ pc \in {"start", "rows", "done", "error", "idle"}
    /\ mode \in 1 .. Len(DescTypes)
    /\ Len(procedure_precision_scores) = Len(procedure_recall_scores)

====
